---- MODULE Spec2Model ----
(***************************************************************************)
(* TeeTalk webhook server (src/main.py): the tee-time availability and     *)
(* booking handlers, with the helpers generate_demo_times and format_time. *)
(* Times of day are the "HH:MM" strings the code builds and parses, dates  *)
(* are "%Y-%m-%d" strings, and the wall clock is Central Time.             *)
(***************************************************************************)
EXTENDS Integers, Sequences, FiniteSets, TLC

VARIABLES now, request, response

vars == <<now, request, response>>

(* ---------------------------- bounds ---------------------------------- *)

\* Minutes by which a later reference time is ahead of an earlier one.
MaxAdvance == 90

\* Calendar days the wall clock and the requested dates range over.
MaxDay == 2

\* Largest number_of_players a request carries.
MaxPlayers == 5

(* ------------------------ string formatting ---------------------------- *)

Digit == <<"0", "1", "2", "3", "4", "5", "6", "7", "8", "9">>

\* f"{n:02d}" for 0 <= n <= 99
Pad2(n) == Digit[(n \div 10) + 1] \o Digit[(n % 10) + 1]

\* f"{n}" for 0 <= n <= 99
Str(n) == IF n < 10 THEN Digit[n + 1] ELSE Pad2(n)

\* f"{hour:02d}:{minute:02d}"
Time24(hour, minute) == Pad2(hour) \o ":" \o Pad2(minute)

\* map(int, s.split(':')) on the well-formed "HH:MM" strings; any other
\* string (None, '') is outside the domain: the code raises there.
SplitInt == [s \in {Time24(h, m) : h \in 0..23, m \in 0..59} |->
               CHOOSE hm \in (0..23) \X (0..59) : Time24(hm[1], hm[2]) = s]

\* now.strftime('%Y-%m-%d') for day d of the modelled month
DateStr(d) == "2025-06-" \o Pad2(d)

\* datetime.strptime(date, '%Y-%m-%d').date(); other strings raise.
StrpDate == [s \in {DateStr(d) : d \in 1..MaxDay} |->
               CHOOSE d \in 1..MaxDay : DateStr(d) = s]

(* --------------------------- configuration ----------------------------- *)

GOLF_COURSES == [c \in {"cedar-ridge"} |->
                   [name  |-> "Cedar Ridge Golf Club",
                    prefix |-> "CE",
                    hours |-> [open |-> "06:00", close |-> "20:00"]]]

\* for minute in [0, 10, 20, 30, 40, 50]
SlotMinutes == <<0, 10, 20, 30, 40, 50>>

\* times[:5]
DemoLimit == 5

\* 'available_slots': 4
AvailableSlots == 4

Max(a, b) == IF a >= b THEN a ELSE b
Min(a, b) == IF a <= b THEN a ELSE b

(* ------------------------------ helpers -------------------------------- *)

\* format_time with noon labelled AM (hour <= 12 for the period)
format_time_NoonAM(time_24hr) ==
    LET hour   == SplitInt[time_24hr][1]
        minute == SplitInt[time_24hr][2]
        period == IF hour <= 12 THEN "AM" ELSE "PM"
        dh     == IF hour <= 12 THEN hour ELSE hour - 12
        display_hour == IF dh = 0 THEN 12 ELSE dh
    IN  Str(display_hour) \o ":" \o Pad2(minute) \o " " \o period

\* format_time: period and display hour of a 24-hour "HH:MM" string
format_time(time_24hr) ==
    LET hour   == SplitInt[time_24hr][1]
        minute == SplitInt[time_24hr][2]
        period == IF hour < 12 THEN "AM" ELSE "PM"
        dh     == IF hour <= 12 THEN hour ELSE hour - 12
        display_hour == IF dh = 0 THEN 12 ELSE dh
    IN  Str(display_hour) \o ":" \o Pad2(minute) \o " " \o period

\* Window starting a same-day query at the current hour (no + 1)
Window_CurrentHour(course, request_day, preference, clock) ==
    LET open_hour  == SplitInt[course.hours.open][1]
        close_hour == SplitInt[course.hours.close][1]
    IN  IF preference = "morning" THEN <<open_hour, 12>>
        ELSE IF preference = "afternoon" THEN <<12, 17>>
        ELSE IF preference = "evening" THEN <<17, close_hour>>
        ELSE <<IF request_day = clock.day THEN clock.hour ELSE open_hour,
               close_hour>>

\* Window that never compares the requested date with today
Window_IgnoreDate(course, request_day, preference, clock) ==
    LET open_hour  == SplitInt[course.hours.open][1]
        close_hour == SplitInt[course.hours.close][1]
    IN  IF preference = "morning" THEN <<open_hour, 12>>
        ELSE IF preference = "afternoon" THEN <<12, 17>>
        ELSE IF preference = "evening" THEN <<17, close_hour>>
        ELSE <<clock.hour + 1, close_hour>>

\* Window reading now.minute where now.hour is meant
Window_MinuteForHour(course, request_day, preference, clock) ==
    LET open_hour  == SplitInt[course.hours.open][1]
        close_hour == SplitInt[course.hours.close][1]
    IN  IF preference = "morning" THEN <<open_hour, 12>>
        ELSE IF preference = "afternoon" THEN <<12, 17>>
        ELSE IF preference = "evening" THEN <<17, close_hour>>
        ELSE <<IF request_day = clock.day THEN clock.minute + 1 ELSE open_hour,
               close_hour>>

\* the (start, end) hour window selected by the preference
Window(course, request_day, preference, clock) ==
    LET open_hour  == SplitInt[course.hours.open][1]
        close_hour == SplitInt[course.hours.close][1]
    IN  IF preference = "morning" THEN <<open_hour, 12>>
        ELSE IF preference = "afternoon" THEN <<12, 17>>
        ELSE IF preference = "evening" THEN <<17, close_hour>>
        ELSE <<IF request_day = clock.day THEN clock.hour + 1 ELSE open_hour,
               close_hour>>

\* HourRange with the end hour included
HourRange_Inclusive(course, w) ==
    LET open_hour  == SplitInt[course.hours.open][1]
        close_hour == SplitInt[course.hours.close][1]
        lo == Max(w[1], open_hour)
        hi == Min(w[2], close_hour) + 1
    IN  [i \in 1..Max(hi - lo, 0) |-> lo + i - 1]

\* HourRange without the clamp to the opening hour
HourRange_NoOpenClamp(course, w) ==
    LET close_hour == SplitInt[course.hours.close][1]
        lo == w[1]
        hi == Min(w[2], close_hour)
    IN  [i \in 1..Max(hi - lo, 0) |-> lo + i - 1]

\* range(max(start, open_hour), min(end, close_hour)) as a sequence
HourRange(course, w) ==
    LET open_hour  == SplitInt[course.hours.open][1]
        close_hour == SplitInt[course.hours.close][1]
        lo == Max(w[1], open_hour)
        hi == Min(w[2], close_hour)
    IN  [i \in 1..Max(hi - lo, 0) |-> lo + i - 1]

\* one entry of times
Slot(hour, minute) ==
    LET time_24 == Time24(hour, minute)
    IN  [time |-> time_24,
         display_time |-> format_time(time_24),
         available_slots |-> AvailableSlots]

\* AllSlots with the minutes walked backwards (50, 40, ..., 0)
AllSlots_MinutesReversed(hours) ==
    LET n == Len(SlotMinutes)
    IN  [k \in 1..(Len(hours) * n) |->
           Slot(hours[((k - 1) \div n) + 1], SlotMinutes[n - ((k - 1) % n)])]

\* the nested loops over hour and minute
AllSlots(hours) ==
    LET n == Len(SlotMinutes)
    IN  [k \in 1..(Len(hours) * n) |->
           Slot(hours[((k - 1) \div n) + 1], SlotMinutes[((k - 1) % n) + 1])]

\* s[:n]
Take(s, n) == SubSeq(s, 1, Min(n, Len(s)))

\* generate_demo_times(course, date, preference), reading the clock:
\* times[:5], where len(times) is the number of hours times the number of
\* minutes of the two loops
generate_demo_times(course, date, preference, clock) ==
    LET hours == HourRange(course, Window(course, StrpDate[date], preference, clock))
        times == AllSlots(hours)
    IN  [k \in 1..Min(DemoLimit, Len(hours) * Len(SlotMinutes)) |-> times[k]]

(* ------------------------------ inputs --------------------------------- *)

\* request dates: every modelled day, and a missing/malformed one
Dates == {DateStr(d) : d \in 1..MaxDay} \cup {""}

Preferences == {"", "morning", "afternoon", "evening"}

\* request.json of POST /check_tee_times
CheckData ==
    [course_id : DOMAIN GOLF_COURSES, date : Dates, time_preference : Preferences]
      \cup {[course_id |-> "unknown", date |-> DateStr(1), time_preference |-> ""]}

\* requested booking times, and a missing/malformed one
BookTimes == {"05:50", "11:30", "20:00", ""}

Names == {"Pat", ""}

Phones == {"+13195550100"}

\* request.json of POST /book_tee_time
BookData ==
    [course_id : DOMAIN GOLF_COURSES, date : Dates, time : BookTimes,
     player_name : Names, phone_number : Phones,
     number_of_players : 1..MaxPlayers]
      \cup {[course_id |-> "unknown", date |-> DateStr(1), time |-> "11:30",
             player_name |-> "Pat", phone_number |-> "+13195550100",
             number_of_players |-> 1]}

\* bookings of every time of day, for the display label
EveryTimeData ==
    [course_id : DOMAIN GOLF_COURSES, date : {DateStr(1)}, time : DOMAIN SplitInt,
     player_name : {"Pat"}, phone_number : {"+13195550100"},
     number_of_players : {1}]

NoRequest == [endpoint |-> "none"]

NoResponse == [status |-> 0]

(* ------------------------------ state ---------------------------------- *)

Clocks == [day : 1..MaxDay, hour : 0..23, minute : 0..59]

\* the server may be started, and a request may arrive, at any time
Init ==
    /\ now \in Clocks
    /\ request = NoRequest
    /\ response = NoResponse

\* datetime.now(tz): the wall clock advances between requests
Tick ==
    /\ request = NoRequest
    /\ \/ now.minute < 59 /\ now' = [now EXCEPT !.minute = @ + 1]
       \/ now.minute = 59 /\ now.hour < 23
            /\ now' = [now EXCEPT !.minute = 0, !.hour = @ + 1]
       \/ now.minute = 59 /\ now.hour = 23 /\ now.day < MaxDay
            /\ now' = [day |-> now.day + 1, hour |-> 0, minute |-> 0]
    /\ UNCHANGED <<request, response>>

\* the body of check_tee_times for request.json = data
CheckResponse(data, clock) ==
    IF data.course_id \notin DOMAIN GOLF_COURSES
    THEN [status |-> 400, error |-> "Course not found"]
    ELSE IF data.date \notin DOMAIN StrpDate
    THEN [status |-> 500, date |-> data.date, available_times |-> <<>>,
          message |-> "Having trouble checking availability right now"]
    ELSE LET available_times ==
               generate_demo_times(GOLF_COURSES[data.course_id], data.date,
                                   data.time_preference, clock)
         IN  IF available_times = <<>>
             THEN [status |-> 200, date |-> data.date, available_times |-> <<>>,
                   message |-> "No tee times available for that date"]
             ELSE [status |-> 200, date |-> data.date,
                   available_times |-> Take(available_times, 5),
                   message |->
                     IF Len(available_times) >= 2
                     THEN "Next available times are "
                            \o available_times[1].display_time \o " and "
                            \o available_times[2].display_time
                     ELSE "We have " \o available_times[1].display_time
                            \o " available"]

\* POST /check_tee_times
check_tee_times ==
    /\ request = NoRequest
    /\ \E data \in CheckData :
         /\ request' = [endpoint |-> "check_tee_times", data |-> data]
         /\ response' = CheckResponse(data, now)
    /\ UNCHANGED now

\* the body of book_tee_time for request.json = data; the confirmation
\* number reads the server's own clock, taken to be Central Time as well
BookResponse(data, clock) ==
    IF data.course_id \notin DOMAIN GOLF_COURSES
    THEN [status |-> 400, error |-> "Course not found"]
    ELSE IF data.time \notin DOMAIN SplitInt
    THEN [status |-> 500, success |-> FALSE,
          message |-> "Unable to complete booking"]
    ELSE [status |-> 200, success |-> TRUE,
          confirmation_number |->
            GOLF_COURSES[data.course_id].prefix \o "-2506" \o Pad2(clock.day)
              \o Pad2(clock.hour) \o Pad2(clock.minute),
          date |-> data.date, time |-> data.time,
          display_time |-> format_time(data.time),
          player_name |-> data.player_name,
          phone_number |-> data.phone_number,
          number_of_players |-> data.number_of_players,
          course_name |-> GOLF_COURSES[data.course_id].name,
          message |-> "Tee time booked for " \o data.player_name]

\* POST /book_tee_time
book_tee_time ==
    /\ request = NoRequest
    /\ \E data \in BookData :
         /\ request' = [endpoint |-> "book_tee_time", data |-> data]
         /\ response' = BookResponse(data, now)
    /\ UNCHANGED now

\* return jsonify(...): the response is sent and the server is idle again
Reply ==
    /\ request # NoRequest
    /\ request' = NoRequest
    /\ response' = NoResponse
    /\ UNCHANGED now

Next == Tick \/ check_tee_times \/ book_tee_time \/ Reply

Spec == Init /\ [][Next]_vars

\* Bookings of every time of day, from midnight of the first day.
InitEveryTime ==
    /\ now = [day |-> 1, hour |-> 0, minute |-> 0]
    /\ request = NoRequest
    /\ response = NoResponse

book_every_time ==
    /\ request = NoRequest
    /\ \E data \in EveryTimeData :
         /\ request' = [endpoint |-> "book_tee_time", data |-> data]
         /\ response' = BookResponse(data, now)
    /\ UNCHANGED now

NextEveryTime == book_every_time \/ Reply

SpecEveryTime == InitEveryTime /\ [][NextEveryTime]_vars

(* ------------------- notions of the specification ---------------------- *)

\* a time of day "HH:MM" in minutes from midnight
Minutes(s) == SplitInt[s][1] * 60 + SplitInt[s][2]

ClockMinutes(clock) == clock.hour * 60 + clock.minute

\* slot_interval_minutes: the step of the minute list
SlotInterval == SlotMinutes[2] - SlotMinutes[1]

\* round_up_to_slot: a multiple of the interval is kept, any other time
\* advances to the next multiple
RoundUpToSlot(t) == ((t + SlotInterval - 1) \div SlotInterval) * SlotInterval

\* the values last_tee_time may take: open_time <= last_tee_time <= close_time
LastTeeTimes(course) == Minutes(course.hours.open)..Minutes(course.hours.close)

StrictlyIncreasing(times) ==
    \A i \in 1..(Len(times) - 1) : Minutes(times[i].time) < Minutes(times[i + 1].time)

IsSuffix(s, t) ==
    /\ Len(s) <= Len(t)
    /\ \A i \in 1..Len(s) : s[i] = t[Len(t) - Len(s) + i]

\* an availability query that was answered with a slot sequence
Checked == request.endpoint = "check_tee_times" /\ response.status = 200

\* ... with no time-of-day preference, for the date of the clock / another date
CheckedToday ==
    Checked /\ request.data.time_preference = ""
            /\ StrpDate[request.data.date] = now.day

CheckedOtherDay ==
    Checked /\ request.data.time_preference = ""
            /\ StrpDate[request.data.date] # now.day

\* a booking request for a configured course, well-formed, with contact info
BookedWellFormed ==
    /\ request.endpoint = "book_tee_time"
    /\ request.data.course_id \in DOMAIN GOLF_COURSES
    /\ request.data.date \in DOMAIN StrpDate
    /\ request.data.time \in DOMAIN SplitInt
    /\ request.data.player_name # ""
    /\ request.data.phone_number # ""

Rejected(reason_code) ==
    /\ "success" \in DOMAIN response
    /\ response.success = FALSE
    /\ "reason" \in DOMAIN response
    /\ response.reason = reason_code

Accepted ==
    /\ "success" \in DOMAIN response
    /\ response.success = TRUE
    /\ "confirmation_number" \in DOMAIN response

TheCourse == GOLF_COURSES[request.data.course_id]

OpenHour == SplitInt[TheCourse.hours.open][1]

CloseHour == SplitInt[TheCourse.hours.close][1]

(* ------------------------------ claims --------------------------------- *)

C3_InvalidPartySizeRejected ==
    (BookedWellFormed /\ request.data.number_of_players \notin 1..4) =>
        Rejected("InvalidPartySize") /\ ~Accepted

\* C4 (as stated): a booking that passes the format, contact and party-size
\* checks with a time outside [open_time, close_time) is rejected with
\* OutsideOperatingHours.
C4_OutsideHoursRejected ==
    (/\ BookedWellFormed
     /\ request.data.number_of_players \in 1..4
     /\ ~(/\ Minutes(TheCourse.hours.open) <= Minutes(request.data.time)
          /\ Minutes(request.data.time) < Minutes(TheCourse.hours.close))) =>
        Rejected("OutsideOperatingHours") /\ ~Accepted

\* C5 (as stated): a booking for today that passes the earlier checks is
\* rejected with TimeAlreadyPassed when its time is before reference_now
\* rounded up to the next slot, and accepted otherwise.
C5_PassedTimeRejected ==
    (/\ BookedWellFormed
     /\ request.data.number_of_players \in 1..4
     /\ Minutes(TheCourse.hours.open) <= Minutes(request.data.time)
     /\ Minutes(request.data.time) < Minutes(TheCourse.hours.close)
     /\ StrpDate[request.data.date] = now.day) =>
        IF Minutes(request.data.time) < RoundUpToSlot(ClockMinutes(now))
        THEN Rejected("TimeAlreadyPassed") /\ ~Accepted
        ELSE Accepted

\* the sequence generate_demo_times returns for the answered query at a
\* later time t1 of the same day
LaterTimes(t1) ==
    generate_demo_times(TheCourse, request.data.date, request.data.time_preference,
                        [now EXCEPT !.hour = t1 \div 60, !.minute = t1 % 60])

\* the reference times t1 with t0 < t1 <= t0 + MaxAdvance on the day of t0;
\* any later time of the day is reached by a chain of such advances, and
\* both relations below are transitive
Later(t0) == (t0 + 1)..Min(t0 + MaxAdvance, 24 * 60 - 1)

C8_DisplayLabel ==
    (request.endpoint = "book_tee_time" /\ response.status = 200) =>
        LET hour   == SplitInt[request.data.time][1]
            minute == SplitInt[request.data.time][2]
            shown  == IF hour = 0 THEN 12 ELSE IF hour <= 12 THEN hour ELSE hour - 12
        IN  /\ response.display_time
                 = Str(shown) \o ":" \o Pad2(minute) \o " "
                     \o (IF hour < 12 THEN "AM" ELSE "PM")
            /\ request.data.time = "00:00" => response.display_time = "12:00 AM"
            /\ request.data.time = "12:00" => response.display_time = "12:00 PM"
            /\ request.data.time = "13:30" => response.display_time = "1:30 PM"
            /\ request.data.time = "09:05" => response.display_time = "9:05 AM"

C8_Witness ==
    /\ request.endpoint = "book_tee_time"
    /\ response.status = 200
    /\ request.data.time = "13:30"
    /\ response.display_time = "1:30 PM"

\* start_time of the specification: max(open_time, rounded-up reference_now)
\* for a same-day query, open_time otherwise
SpecStartTime ==
    IF StrpDate[request.data.date] = now.day
    THEN Max(Minutes(TheCourse.hours.open), RoundUpToSlot(ClockMinutes(now)))
    ELSE Minutes(TheCourse.hours.open)

\* t = start + k * slot_interval_minutes for some non-negative integer k
OnGridFrom(start, t) == t >= start /\ (t - start) % SlotInterval = 0

ClaimedHours ==
    LET pref  == request.data.time_preference
        start == IF pref = "morning" THEN OpenHour
                 ELSE IF pref = "afternoon" THEN 12
                 ELSE IF pref = "evening" THEN 17
                 ELSE IF StrpDate[request.data.date] = now.day THEN now.hour + 1
                 ELSE OpenHour
        end   == IF pref = "morning" THEN 12
                 ELSE IF pref = "afternoon" THEN 17
                 ELSE CloseHour
    IN  <<Max(start, OpenHour), Min(end, CloseHour)>>

\* C10: every answered query returns at most 5 slots, the earliest slots of
\* the selected window, every slot's hour lies in
\* [max(start, open_hour), min(end, close_hour)), and the result is empty
\* when that hour range is empty.
C10_FiveEarliestInWindow ==
    Checked =>
        LET times == response.available_times
            lo    == ClaimedHours[1]
            hi    == ClaimedHours[2]
        IN  /\ Len(times) <= 5
            /\ Len(times) = IF hi > lo THEN Min(5, 6 * (hi - lo)) ELSE 0
            /\ \A i \in 1..Len(times) :
                 /\ SplitInt[times[i].time][1] >= lo
                 /\ SplitInt[times[i].time][1] < hi
                 /\ SplitInt[times[i].time][1] >= OpenHour
                 /\ SplitInt[times[i].time][1] < CloseHour
                 /\ Minutes(times[i].time) = lo * 60 + (i - 1) * 10

C10_Witness ==
    /\ Checked
    /\ request.data.time_preference = "evening"
    /\ Len(response.available_times) = 5
    /\ response.available_times[1].time = "17:00"

C10_WitnessEmpty ==
    /\ Checked
    /\ request.data.time_preference = ""
    /\ StrpDate[request.data.date] = now.day
    /\ now.hour + 1 >= CloseHour
    /\ response.available_times = <<>>

====
